---- MODULE Spec2Model ----
(***************************************************************************)
(* A model of the TFTP server of Layer8Collective/tftp: the packet codec   *)
(* (ReadReq, WriteReq, Data, Ack, Err), the dispatcher TFTPServer.Serve    *)
(* and the two session handlers handleRead (download) and handleWrite      *)
(* (upload).  Bytes are the integers 0..255, a buffer or a string is a     *)
(* sequence of bytes.                                                      *)
(***************************************************************************)
EXTENDS Integers, Sequences, FiniteSets, TLC

(***************************************************************************)
(* Program constants.                                                      *)
(***************************************************************************)
DatagramSize == 516
BlockSize == DatagramSize - 4

OpRRQ == 1
OpWRQ == 2
OpData == 3
OpAck == 4
OpErr == 5

ErrUnknown == 0
ErrIllegalOp == 4
ErrNoUser == 7

\* the width of uint16 (Data.Block, Ack.Block, OperationCode, ErrCode)
U16 == 65536

\* TFTPServer.Retries when the field is left 0
DefaultRetries == 10

(***************************************************************************)
(* Strings of the program and of the inputs, as byte sequences.            *)
(***************************************************************************)
octet == <<111, 99, 116, 101, 116>>
OCTET == <<79, 67, 84, 69, 84>>
Octet == <<79, 99, 116, 101, 116>>
netascii == <<110, 101, 116, 97, 115, 99, 105, 105>>
MAIL == <<77, 65, 73, 76>>
NoWriteMsg ==
    <<87, 101, 32, 100, 111, 110, 39, 116, 32, 97, 99, 99, 101, 112, 116, 32,
      119, 114, 105, 116, 101, 32, 114, 101, 113, 117, 101, 115, 116, 115>>

(***************************************************************************)
(* Byte-level helpers: the parts of bytes, strings and encoding/binary     *)
(* the codec uses.                                                         *)
(***************************************************************************)
Min(a, b) == IF a < b THEN a ELSE b

Take(s, n) == SubSeq(s, 1, Min(n, Len(s)))

Drop(s, n) == SubSeq(s, n + 1, Len(s))

Zeros(n) == [j \in 1..n |-> 0]

\* binary.Write(b, binary.BigEndian, v) for a uint16 v
PutU16(v) == <<(v % U16) \div 256, v % 256>>

\* binary.Read(r, binary.BigEndian, &v) for a uint16 v: fails on fewer than 2 bytes
ReadU16(p) ==
    IF Len(p) < 2
    THEN [err |-> TRUE, v |-> 0, rest |-> p]
    ELSE [err |-> FALSE, v |-> p[1] * 256 + p[2], rest |-> Drop(p, 2)]

\* the index of the first NUL of s, 0 when it has none
FirstNul(s) ==
    IF \E i \in 1..Len(s) : s[i] = 0
    THEN CHOOSE i \in 1..Len(s) : s[i] = 0 /\ \A j \in 1..(i - 1) : s[j] # 0
    ELSE 0

\* bytes.Buffer.ReadString(0): up to and including the first NUL; without one,
\* all that is left and io.EOF
ReadString(b) ==
    LET k == FirstNul(b)
    IN  IF k = 0
        THEN [s |-> b, rest |-> <<>>, err |-> TRUE]
        ELSE [s |-> SubSeq(b, 1, k), rest |-> Drop(b, k), err |-> FALSE]

\* TrimRight with the fault of trimming nothing
TrimRightNothing(s) == s

\* strings.TrimRight(s, "\x00")
TrimRight(s) ==
    IF \E i \in 1..Len(s) : s[i] # 0
    THEN SubSeq(s, 1, CHOOSE i \in 1..Len(s) :
                         s[i] # 0 /\ \A j \in (i + 1)..Len(s) : s[j] = 0)
    ELSE <<>>

\* strings.ToLower on ASCII
ToLower(s) == [j \in 1..Len(s) |-> IF s[j] >= 65 /\ s[j] <= 90 THEN s[j] + 32 ELSE s[j]]

(***************************************************************************)
(* A byte source: a []byte of len bytes read through a bytes.Reader at     *)
(* offset off.  The content is fixed by the seed: byte i (from 1) is       *)
(* (seed + i) % 251, so that consecutive 512-byte blocks differ.           *)
(***************************************************************************)
ByteAt(seed, i) == (seed + i) % 251

\* the bytes ByteAt gives over two periods and a block, computed once
Pattern == [j \in 1..(2 * 251 + BlockSize) |-> j % 251]

\* bytes base + 1 .. base + k of the content: ByteAt(seed, off + j) for
\* base = seed + off
Chunk(base, k) == SubSeq(Pattern, (base % 251) + 1, (base % 251) + k)

\* CopyN with the fault of a reader that does not advance
CopyNNoAdvance(r) ==
    [bytes |-> Chunk(r.seed + r.off, Min(BlockSize, r.len - r.off)), r |-> r]

\* io.CopyN(b, r, BlockSize): the next BlockSize bytes of the reader, or
\* fewer at its end (io.EOF is not an error for the caller)
CopyN(r) ==
    LET k == Min(BlockSize, r.len - r.off)
    IN  [bytes |-> Chunk(r.seed + r.off, k),
         r |-> [r EXCEPT !.off = r.off + k]]

\* all the bytes of a source, from its start
SourceBytes(r) == [j \in 1..r.len |-> ByteAt(r.seed, j)]

(***************************************************************************)
(* The packet codec.                                                       *)
(***************************************************************************)
ReqFail == [err |-> TRUE, Filename |-> <<>>, Mode |-> <<>>]

\* the mode test of WriteReq.UnmarshalBinary
WriteModeOk(mode) == mode = octet

WriteReqUnmarshalBinary(p) ==
    LET c == ReadU16(p)
    IN  IF c.err \/ c.v # OpWRQ
        THEN ReqFail
        ELSE LET f == ReadString(c.rest)
                 m == ReadString(f.rest)
             IN  IF ~WriteModeOk(TrimRight(m.s))
                 THEN ReqFail
                 ELSE [err |-> FALSE, Filename |-> TrimRight(f.s),
                       Mode |-> TrimRight(m.s)]

ReadReqMarshalBinary(q) ==
    LET mode == IF q.Mode # <<>> THEN q.Mode ELSE octet
    IN  PutU16(OpRRQ) \o q.Filename \o <<0>> \o mode \o <<0>>

\* ReadModeOk with the fault of accepting every mode
ReadModeAny(mode) == TRUE

\* the mode test of ReadReq.UnmarshalBinary
ReadModeOk(mode) == Len(mode) # 0 /\ ToLower(mode) = octet

ReadReqUnmarshalBinary(p) ==
    LET c == ReadU16(p)
    IN  IF c.err \/ c.v # OpRRQ
        THEN ReqFail
        ELSE LET f == ReadString(c.rest)
                 m == ReadString(f.rest)
             IN  IF f.err \/ m.err \/ ~ReadModeOk(TrimRight(m.s))
                 THEN ReqFail
                 ELSE [err |-> FALSE, Filename |-> TrimRight(f.s),
                       Mode |-> TrimRight(m.s)]

\* IncBlock with the fault of a counter wider than 16 bits
IncBlockWide(b) == b + 1

\* d.Block++ on a uint16
IncBlock(b) == (b + 1) % U16

\* Data.MarshalBinary on d = [Block, Payload (a byte source)]: the datagram
\* and d as the call leaves it (the receiver is a pointer)
DataMarshalBinary(d) ==
    LET blk == IncBlock(d.Block)
        c == CopyN(d.Payload)
    IN  [bytes |-> PutU16(OpData) \o PutU16(blk) \o c.bytes,
         d |-> [Block |-> blk, Payload |-> c.r]]

DataFail == [err |-> TRUE, Block |-> 0, Payload |-> <<>>]

\* DataUnmarshalBinary with the fault of a payload that starts at the block
\* number
DataUnmarshalWithHeader(p) ==
    IF Len(p) < 4 \/ Len(p) > DatagramSize
    THEN DataFail
    ELSE IF ReadU16(SubSeq(p, 1, 2)).v # OpData
         THEN DataFail
         ELSE [err |-> FALSE, Block |-> ReadU16(SubSeq(p, 3, 4)).v,
               Payload |-> Drop(p, 2)]

DataUnmarshalBinary(p) ==
    IF Len(p) < 4 \/ Len(p) > DatagramSize
    THEN DataFail
    ELSE IF ReadU16(SubSeq(p, 1, 2)).v # OpData
         THEN DataFail
         ELSE [err |-> FALSE, Block |-> ReadU16(SubSeq(p, 3, 4)).v,
               Payload |-> Drop(p, 4)]

AckMarshalBinary(a) == PutU16(OpAck) \o PutU16(a.Block)

AckFail == [err |-> TRUE, Block |-> 0]

AckUnmarshalBinary(p) ==
    LET c == ReadU16(p)
    IN  IF c.err \/ c.v # OpAck
        THEN AckFail
        ELSE LET b == ReadU16(c.rest)
             IN  IF b.err THEN AckFail ELSE [err |-> FALSE, Block |-> b.v]

ErrMarshalBinary(e) == PutU16(OpErr) \o PutU16(e.Error) \o e.Message \o <<0>>

ErrFail == [err |-> TRUE, Error |-> 0, Message |-> <<>>]

\* ErrUnmarshalBinary with the fault of accepting no buffer at all
ErrUnmarshalNever(p) == ErrFail

ErrUnmarshalBinary(p) ==
    LET c == ReadU16(p)
    IN  IF c.err \/ c.v # OpErr
        THEN ErrFail
        ELSE LET e == ReadU16(c.rest)
             IN  IF e.err
                 THEN ErrFail
                 ELSE LET m == ReadString(e.rest)
                      IN  [err |-> m.err, Error |-> e.v, Message |-> TrimRight(m.s)]

(***************************************************************************)
(* Bounds of the model.                                                    *)
(***************************************************************************)
\* Retries is drawn from 1..MaxRetries (and 0, which Serve turns into 10)
MaxRetries == 3
\* the served payload has at most MaxFull full blocks before its last one
MaxFull == 1
\* the sessions the dispatcher launches in one run
MaxSessions == 2
\* the Data datagrams one upload session receives in one run
MaxUpload == 2
\* the datagrams the dispatcher drops as bad requests in one run
MaxBad == 2

(***************************************************************************)
(* The state.                                                              *)
(*   Payload, Retries, WriteAllowed  the TFTPServer fields                 *)
(*   connNil     whether Serve is handed a nil connection                  *)
(*   servePc     where Serve is: "start", "loop", "returned"               *)
(*   serveErr    what Serve returned                                       *)
(*   lsent       the datagrams written on the listening socket             *)
(*   sessions    the goroutines launched, in launch order; each holds the  *)
(*               locals of its handleRead or handleWrite                   *)
(*   panicked    a goroutine panicked: the Go runtime ends the process     *)
(*   nbad        the "bad request" lines Serve has logged                  *)
(*   trace       whether the datagrams a session writes are recorded       *)
(*   keep        whether what a download session reads is recorded        *)
(*   cpc, cin, cwire, cout   a codec call under test: its position, the    *)
(*               packet, the bytes, the decoded result                     *)
(***************************************************************************)
VARIABLES Payload, Retries, WriteAllowed, connNil, servePc, serveErr, lsent,
          sessions, panicked, nbad, trace, keep, cpc, cin, cwire, cout

vars == <<Payload, Retries, WriteAllowed, connNil, servePc, serveErr, lsent,
          sessions, panicked, nbad, trace, keep, cpc, cin, cwire, cout>>

config == <<Payload, Retries, WriteAllowed, connNil, trace, keep>>
codec == <<cpc, cin, cwire, cout>>
server == <<servePc, serveErr, lsent, sessions, panicked, nbad>>

Addrs == {"c1", "c2"}

NilPayload == [nil |-> TRUE, len |-> 0, seed |-> 0]

\* the payloads served: every length of up to MaxFull full blocks plus a last
\* block of 0, 1 or BlockSize - 1 bytes
PayloadLens == {k * BlockSize + r : k \in 0..MaxFull, r \in {0, 1, BlockSize - 1}}

Payloads == {[nil |-> FALSE, len |-> l, seed |-> 7] : l \in PayloadLens}

\* a goroutine as go s.handleRead / go s.handleWrite starts it
NewSession(kind, addr, req) ==
    [kind |-> kind, addr |-> addr, Filename |-> req.Filename,
     Mode |-> req.Mode, seen |-> nbad, pc |-> "dial",
     Block |-> 0,
     rd |-> [len |-> Payload.len, seed |-> Payload.seed, off |-> 0],
     data |-> <<>>, i |-> 0, n |-> DatagramSize, buf |-> Zeros(DatagramSize),
     ackBlock |-> 0, file |-> <<>>, open |-> FALSE, nrecv |-> 0,
     sent |-> <<>>, nsent |-> 0, acked |-> 0, allAcked |-> TRUE,
     allTimedOut |-> TRUE, rcvd |-> <<>>, got |-> <<>>, diskFail |-> FALSE]

\* conn.Read(buf), conn.ReadFrom(buf): the datagram over the start of the
\* buffer, cut to its length; the rest of the buffer stays as it was
ReadInto(buf, d) == Take(d, Len(buf)) \o Drop(buf, Len(d))

\* what conn.Read gave a download session (a datagram, or <<-1>> for a
\* timeout) as the session's history records it
Heard(sess, e) == [sess EXCEPT !.rcvd = IF keep THEN Append(@, e) ELSE @]

\* conn.Write(data) as the session's history records it
Record(sess, data) ==
    [sess EXCEPT !.sent = IF trace THEN Append(@, data) ELSE @,
                 !.nsent = @ + 1]

(***************************************************************************)
(* TFTPServer.Serve                                                        *)
(***************************************************************************)
\* the checks and defaults of Serve before its loop
ServeStart ==
    /\ servePc = "start"
    /\ ~panicked
    /\ IF connNil
       THEN servePc' = "returned" /\ serveErr' = "Nil Connection"
                                  /\ UNCHANGED Retries
       ELSE IF Payload.nil
            THEN servePc' = "returned" /\ serveErr' = "Payload is required"
                                       /\ UNCHANGED Retries
            ELSE /\ servePc' = "loop"
                 /\ UNCHANGED serveErr
                 /\ Retries' = IF Retries = 0 THEN DefaultRetries ELSE Retries
    /\ UNCHANGED <<Payload, WriteAllowed, connNil, trace, keep, lsent,
                   sessions, panicked, nbad, codec>>

\* the ErrorPacket Serve sends when writes are not allowed
IllegalOpPacket == ErrMarshalBinary([Error |-> ErrIllegalOp, Message |-> NoWriteMsg])

\* Launch with the fault of starting a download whatever the request
LaunchDownload(kind, a, req) == Append(sessions, NewSession("read", a, req))

\* Launch with the fault of one Data value for all the sessions: a new session
\* goes on from the block counter and the read position of the first one
LaunchSharing(kind, a, req) ==
    Append(sessions,
           [NewSession(kind, a, req) EXCEPT
               !.Block = IF sessions = <<>> THEN @ ELSE sessions[1].Block,
               !.rd = IF sessions = <<>> THEN @ ELSE sessions[1].rd])

\* go s.handleRead(addr.String(), rrq), go s.handleWrite(addr.String(), wrq)
Launch(kind, a, req) == Append(sessions, NewSession(kind, a, req))

\* one turn of the loop of Serve on datagram d from address a
ServeRead(d, a) ==
    /\ servePc = "loop"
    /\ ~panicked
    /\ LET buf == ReadInto(Zeros(DatagramSize), d)
           rrq == ReadReqUnmarshalBinary(buf)
           wrq == WriteReqUnmarshalBinary(buf)
       IN  IF ~rrq.err
           THEN /\ Len(sessions) < MaxSessions
                /\ sessions' = Launch("read", a, rrq)
                /\ UNCHANGED <<lsent, nbad>>
           ELSE IF ~wrq.err
                THEN /\ Len(sessions) < MaxSessions
                     /\ lsent' = IF WriteAllowed = FALSE
                                 THEN Append(lsent, [to |-> a, data |-> IllegalOpPacket])
                                 ELSE lsent
                     /\ sessions' = Launch("write", a, wrq)
                     /\ UNCHANGED nbad
                ELSE /\ nbad < MaxBad
                     /\ nbad' = nbad + 1
                     /\ UNCHANGED <<lsent, sessions>>
    /\ UNCHANGED <<config, Retries, servePc, serveErr, panicked, codec>>

\* conn.ReadFrom fails: Serve returns the error
ServeReadFail ==
    /\ servePc = "loop"
    /\ ~panicked
    /\ servePc' = "returned"
    /\ serveErr' = "read"
    /\ UNCHANGED <<config, Retries, lsent, sessions, panicked, nbad, codec>>

(***************************************************************************)
(* Steps common to both handlers.                                          *)
(***************************************************************************)
Upd(s, r) == sessions' = [sessions EXCEPT ![s] = r]

Live(s) == ~panicked /\ s \in 1..Len(sessions)

Others == <<config, Retries, servePc, serveErr, lsent, panicked, nbad, codec>>

\* net.Dial("udp", clientAddr) succeeds
Dial(s) ==
    /\ Live(s)
    /\ sessions[s].pc = "dial"
    /\ Upd(s, [sessions[s] EXCEPT
                  !.pc = IF sessions[s].kind = "read" THEN "next" ELSE "ack0"])
    /\ UNCHANGED Others

\* net.Dial fails: the handler logs and returns
DialFail(s) ==
    /\ Live(s)
    /\ sessions[s].pc = "dial"
    /\ Upd(s, [sessions[s] EXCEPT !.pc = "giveup", !.allAcked = FALSE,
                                  !.allTimedOut = FALSE])
    /\ UNCHANGED Others

(***************************************************************************)
(* TFTPServer.handleRead                                                   *)
(***************************************************************************)
\* DecRetry with the fault of a counter that is never decremented
DecRetryNone(i) == i

\* the i-- of the RETRY loop
DecRetry(i) == i - 1

\* EndTurn with the fault of a loop test i >= 0: one turn too many
EndTurnOneMore(sess) ==
    [sess EXCEPT !.i = DecRetry(sess.i),
                 !.pc = IF DecRetry(sess.i) >= 0 THEN "write" ELSE "giveup"]

\* the end of one turn of the RETRY loop that neither advanced nor returned:
\* i--, and either the next turn or "exhausted retries"
EndTurn(sess) ==
    [sess EXCEPT !.i = DecRetry(sess.i),
                 !.pc = IF DecRetry(sess.i) > 0 THEN "write" ELSE "giveup"]

\* the test of the NEXTPACKET loop
MoreToSend(n) == n = DatagramSize

\* the head of the NEXTPACKET loop: the next block is marshalled while the
\* last write was a full datagram
ReadNext(s) ==
    /\ Live(s)
    /\ sessions[s].pc = "next"
    /\ LET sess == sessions[s]
           m == DataMarshalBinary([Block |-> sess.Block, Payload |-> sess.rd])
       IN  IF MoreToSend(sess.n)
           THEN Upd(s, [sess EXCEPT !.Block = m.d.Block, !.rd = m.d.Payload,
                                    !.data = m.bytes, !.i = Retries,
                                    !.pc = "write"])
           ELSE Upd(s, [sess EXCEPT !.pc = "complete"])
    /\ UNCHANGED Others

\* n, err = conn.Write(data) succeeds
ReadWrite(s) ==
    /\ Live(s)
    /\ sessions[s].pc = "write"
    /\ sessions[s].kind = "read"
    /\ LET sess == sessions[s]
       IN  Upd(s, [Record(sess, sess.data) EXCEPT !.n = Len(sess.data),
                                                   !.pc = "read"])
    /\ UNCHANGED Others

\* conn.Write fails
ReadWriteFail(s) ==
    /\ Live(s)
    /\ sessions[s].pc = "write"
    /\ sessions[s].kind = "read"
    /\ Upd(s, [sessions[s] EXCEPT !.pc = "giveup", !.allAcked = FALSE,
                                  !.allTimedOut = FALSE])
    /\ UNCHANGED Others

\* conn.Read ends in a timeout: continue RETRY
ReadTimeout(s) ==
    /\ Live(s)
    /\ sessions[s].pc = "read"
    /\ sessions[s].kind = "read"
    /\ Upd(s, [EndTurn(Heard(sessions[s], <<-1>>)) EXCEPT !.allAcked = FALSE])
    /\ UNCHANGED Others

\* conn.Read fails otherwise
ReadRecvFail(s) ==
    /\ Live(s)
    /\ sessions[s].pc = "read"
    /\ sessions[s].kind = "read"
    /\ Upd(s, [sessions[s] EXCEPT !.pc = "giveup", !.allAcked = FALSE,
                                  !.allTimedOut = FALSE])
    /\ UNCHANGED Others

\* the Ack test of the switch
AckMatches(ack, block) == ack.Block = block

\* conn.Read delivers datagram d: the switch on what buf decodes to
ReadRecv(s, d) ==
    /\ Live(s)
    /\ sessions[s].pc = "read"
    /\ sessions[s].kind = "read"
    /\ LET sess == sessions[s]
           buf == ReadInto(sess.buf, d)
           ack == AckUnmarshalBinary(buf)
           err == ErrUnmarshalBinary(buf)
           got == [Heard(sess, d) EXCEPT !.buf = buf, !.allTimedOut = FALSE]
       IN  IF ~ack.err
           THEN IF AckMatches(ack, sess.Block)
                THEN Upd(s, [got EXCEPT !.pc = "next", !.acked = @ + 1,
                                        !.ackBlock = ack.Block])
                ELSE Upd(s, [EndTurn(got) EXCEPT !.allAcked = FALSE,
                                                 !.ackBlock = ack.Block])
           ELSE IF ~err.err
                THEN Upd(s, [got EXCEPT !.pc = "giveup", !.allAcked = FALSE])
                ELSE Upd(s, [EndTurn(got) EXCEPT !.allAcked = FALSE])
    /\ UNCHANGED Others

(***************************************************************************)
(* TFTPServer.handleWrite                                                  *)
(***************************************************************************)
\* the initial Ack: ackPkt is the zero Ack
WriteAckZero(s) ==
    /\ Live(s)
    /\ sessions[s].pc = "ack0"
    /\ LET sess == sessions[s]
       IN  Upd(s, [Record(sess, AckMarshalBinary([Block |-> sess.ackBlock]))
                      EXCEPT !.pc = "create"])
    /\ UNCHANGED Others

\* the initial conn.Write fails
WriteAckZeroFail(s) ==
    /\ Live(s)
    /\ sessions[s].pc = "ack0"
    /\ Upd(s, [sessions[s] EXCEPT !.pc = "giveup"])
    /\ UNCHANGED Others

\* os.Create(wrq.Filename) succeeds: an empty file, open
WriteCreate(s) ==
    /\ Live(s)
    /\ sessions[s].pc = "create"
    /\ Upd(s, [sessions[s] EXCEPT !.pc = "read", !.file = <<>>, !.open = TRUE])
    /\ UNCHANGED Others

\* os.Create fails
WriteCreateFail(s) ==
    /\ Live(s)
    /\ sessions[s].pc = "create"
    /\ Upd(s, [sessions[s] EXCEPT !.pc = "giveup"])
    /\ UNCHANGED Others

\* conn.Read fails: return, the deferred file.Close runs
WriteRecvFail(s) ==
    /\ Live(s)
    /\ sessions[s].pc = "read"
    /\ sessions[s].kind = "write"
    /\ Upd(s, [sessions[s] EXCEPT !.pc = "giveup", !.open = FALSE])
    /\ UNCHANGED Others

\* whether data[:n-4] is in range: a negative bound is a run-time panic
SliceOk(n) == n - 4 >= 0

\* n, err = conn.Read(buf) delivers datagram d; diskOk is whether file.Write
\* succeeds.  The whole turn of the loop up to the Ack's conn.Write.
WriteRecv(s, d, diskOk) ==
    /\ Live(s)
    /\ sessions[s].pc = "read"
    /\ sessions[s].kind = "write"
    /\ sessions[s].nrecv < MaxUpload
    /\ LET sess == sessions[s]
           n == Len(Take(d, DatagramSize))
           buf == ReadInto(sess.buf, d)
           err == ErrUnmarshalBinary(buf)
           dat == DataUnmarshalBinary(buf)
           got == [sess EXCEPT !.buf = buf, !.n = n, !.nrecv = @ + 1]
       IN  IF ~err.err \/ dat.err
           THEN /\ Upd(s, [got EXCEPT !.pc = "giveup", !.open = FALSE])
                /\ UNCHANGED panicked
           ELSE IF ~SliceOk(n)
                THEN /\ panicked' = TRUE
                     /\ Upd(s, [got EXCEPT !.Block = dat.Block])
                ELSE IF ~diskOk
                     THEN /\ Upd(s, [got EXCEPT !.Block = dat.Block,
                                                !.got = IF trace THEN Append(@, d) ELSE @,
                                                !.diskFail = TRUE,
                                                !.pc = "giveup", !.open = FALSE])
                          /\ UNCHANGED panicked
                     ELSE /\ Upd(s, [got EXCEPT
                                        !.Block = dat.Block,
                                        !.file = @ \o Take(dat.Payload, n - 4),
                                        !.got = IF trace THEN Append(@, d) ELSE @,
                                        !.ackBlock = dat.Block,
                                        !.pc = "ack"])
                          /\ UNCHANGED panicked
    /\ UNCHANGED <<config, Retries, servePc, serveErr, lsent, nbad, codec>>

\* MoreToReceive with the fault of going on after every Data datagram
MoreToReceiveAny(n) == n >= 4

\* the loop test of handleWrite
MoreToReceive(n) == n = DatagramSize

\* WriteAck with the fault of acknowledging by count, not by the block read
WriteAckCounting(s) ==
    /\ Live(s)
    /\ sessions[s].pc = "ack"
    /\ LET sess == sessions[s]
           more == MoreToReceive(sess.n)
       IN  Upd(s, [Record(sess, AckMarshalBinary([Block |-> sess.nrecv]))
                      EXCEPT !.pc = IF more THEN "read" ELSE "complete",
                             !.open = more])
    /\ UNCHANGED Others

\* the Ack of the Data just stored is written; the loop goes on after a full
\* datagram and ends (the file is closed) after a shorter one
WriteAck(s) ==
    /\ Live(s)
    /\ sessions[s].pc = "ack"
    /\ LET sess == sessions[s]
           more == MoreToReceive(sess.n)
       IN  Upd(s, [Record(sess, AckMarshalBinary([Block |-> sess.ackBlock]))
                      EXCEPT !.pc = IF more THEN "read" ELSE "complete",
                             !.open = more])
    /\ UNCHANGED Others

\* the Ack's conn.Write fails
WriteAckFail(s) ==
    /\ Live(s)
    /\ sessions[s].pc = "ack"
    /\ Upd(s, [sessions[s] EXCEPT !.pc = "giveup", !.open = FALSE])
    /\ UNCHANGED Others

(***************************************************************************)
(* The datagrams of the environment: what a client can put on the wire.    *)
(***************************************************************************)
FileX == <<120>>

\* a request as the RRQ / WRQ layout gives it: opcode, filename, 0, mode, 0
RawRequest(op, filename, mode) == PutU16(op) \o filename \o <<0>> \o mode \o <<0>>

\* a Data datagram of a client: opcode, block, k payload bytes
ClientData(b, k) == PutU16(OpData) \o PutU16(b) \o Chunk(b, k)

ClientError == ErrMarshalBinary([Error |-> ErrUnknown, Message |-> <<>>])

\* to the listening socket: the requests Serve accepts (the last one lacks
\* its final NUL, which the zeroed read buffer supplies)
Requests ==
    {RawRequest(OpRRQ, FileX, octet), RawRequest(OpWRQ, FileX, octet),
     <<0, 1, 120, 0, 111, 99, 116, 101, 116>>}

\* to the listening socket: datagrams Serve decodes as neither request
Malformed ==
    {RawRequest(OpRRQ, FileX, netascii), RawRequest(OpWRQ, FileX, MAIL),
     RawRequest(OpRRQ, FileX, <<>>), <<>>, <<0, 9>>,
     AckMarshalBinary([Block |-> 1])}

\* to a download session that has sent block b: its Ack, the Ack of the block
\* before, an ErrorPacket, a Data packet, an Ack cut to its opcode, nothing
ToDownload(b) ==
    {AckMarshalBinary([Block |-> b]),
     AckMarshalBinary([Block |-> (b + U16 - 1) % U16]),
     ClientError, ClientData(b, 0), <<0, 4>>, <<>>}

\* to an upload session: Data with a full, a one-byte and an empty payload,
\* numbered in order or not, Data cut below its header, an ErrorPacket, an
\* Ack, nothing
ToUpload(k) ==
    {ClientData(b, l) : b \in {k + 1, 9}, l \in {BlockSize, 1, 0}}
    \cup {<<0, 3>>, <<0, 3, 0>>, ClientError, AckMarshalBinary([Block |-> 0]), <<>>}

(***************************************************************************)
(* The codec under test: a packet is marshalled (or, for a request, laid   *)
(* out on the wire as a client does), then unmarshalled.                   *)
(***************************************************************************)
NoSource == [len |-> 0, seed |-> 0, off |-> 0]

Packet(kind, filename, mode, block, payload, code, msg) ==
    [kind |-> kind, Filename |-> filename, Mode |-> mode, Block |-> block,
     Payload |-> payload, Error |-> code, Message |-> msg]

Modes == {octet, OCTET, Octet, netascii, MAIL, <<>>}

CodecInputs ==
    {Packet(k, f, m, 0, NoSource, 0, <<>>) :
        k \in {"RRQ", "WRQ"}, f \in {<<>>, FileX}, m \in Modes}
    \cup {Packet("DATA", <<>>, <<>>, b, [len |-> l, seed |-> 3, off |-> 0], 0, <<>>) :
        b \in {0, 1, U16 - 2, U16 - 1}, l \in {0, 1, BlockSize - 1, BlockSize}}
    \cup {Packet("ACK", <<>>, <<>>, b, NoSource, 0, <<>>) :
        b \in {0, 1, U16 - 1}}
    \cup {Packet("ERR", <<>>, <<>>, 0, NoSource, c, m) :
        c \in ErrUnknown..ErrNoUser, m \in {<<>>, NoWriteMsg}}

Marshal(p) ==
    CASE p.kind = "RRQ" -> ReadReqMarshalBinary(p)
      [] p.kind = "DATA" -> DataMarshalBinary(p).bytes
      [] p.kind = "ACK" -> AckMarshalBinary(p)
      [] p.kind = "ERR" -> ErrMarshalBinary(p)

Unmarshal(kind, b) ==
    CASE kind = "RRQ" -> ReadReqUnmarshalBinary(b)
      [] kind = "WRQ" -> WriteReqUnmarshalBinary(b)
      [] kind = "DATA" -> DataUnmarshalBinary(b)
      [] kind = "ACK" -> AckUnmarshalBinary(b)
      [] kind = "ERR" -> ErrUnmarshalBinary(b)

CodecMarshal ==
    /\ cpc = "start"
    /\ cin.kind \in {"RRQ", "DATA", "ACK", "ERR"}
    /\ cwire' = Marshal(cin)
    /\ cpc' = "marshalled"
    /\ UNCHANGED <<config, Retries, server, cin, cout>>

CodecWire ==
    /\ cpc = "start"
    /\ cin.kind \in {"RRQ", "WRQ"}
    /\ cwire' = RawRequest(IF cin.kind = "RRQ" THEN OpRRQ ELSE OpWRQ,
                           cin.Filename, cin.Mode)
    /\ cpc' = "wired"
    /\ UNCHANGED <<config, Retries, server, cin, cout>>

CodecUnmarshal ==
    /\ cpc \in {"marshalled", "wired"}
    /\ cout' = Unmarshal(cin.kind, cwire)
    /\ cpc' = IF cpc = "marshalled" THEN "roundtrip" ELSE "decoded"
    /\ UNCHANGED <<config, Retries, server, cin, cwire>>

(***************************************************************************)
(* The specifications.                                                     *)
(***************************************************************************)
ServerIdle ==
    /\ servePc = "start"
    /\ serveErr = "none"
    /\ lsent = <<>>
    /\ sessions = <<>>
    /\ panicked = FALSE
    /\ nbad = 0

CodecIdle ==
    /\ cpc = "off"
    /\ cin = Packet("ACK", <<>>, <<>>, 0, NoSource, 0, <<>>)
    /\ cwire = <<>>
    /\ cout = [err |-> TRUE]

\* the codec alone, on every input packet
InitCodec ==
    /\ ServerIdle
    /\ Payload = NilPayload
    /\ Retries = 0
    /\ WriteAllowed = FALSE
    /\ connNil = FALSE
    /\ trace = FALSE
    /\ keep = FALSE
    /\ cpc = "start"
    /\ cin \in CodecInputs
    /\ cwire = <<>>
    /\ cout = [err |-> TRUE]

NextCodec == CodecMarshal \/ CodecWire \/ CodecUnmarshal

SpecCodec == InitCodec /\ [][NextCodec]_vars

\* the steps of the sessions, on every datagram of the environment
StepRead(s) ==
    \/ ReadNext(s)
    \/ ReadWrite(s)
    \/ ReadWriteFail(s)
    \/ ReadTimeout(s)
    \/ ReadRecvFail(s)
    \/ Live(s) /\ \E d \in ToDownload(sessions[s].Block) : ReadRecv(s, d)

StepWrite(s) ==
    \/ WriteAckZero(s)
    \/ WriteAckZeroFail(s)
    \/ WriteCreate(s)
    \/ WriteCreateFail(s)
    \/ WriteRecvFail(s)
    \/ Live(s) /\ \E d \in ToUpload(sessions[s].nrecv) : \E ok \in BOOLEAN : WriteRecv(s, d, ok)
    \/ WriteAck(s)
    \/ WriteAckFail(s)

\* one download session, every payload and retry budget, every client
InitDownload ==
    /\ ServerIdle
    /\ CodecIdle
    /\ Payload \in Payloads
    /\ Retries \in 0..MaxRetries
    /\ WriteAllowed = FALSE
    /\ connNil = FALSE
    /\ trace = TRUE
    /\ keep = FALSE

NextDownload ==
    \/ ServeStart
    \/ sessions = <<>> /\ ServeRead(RawRequest(OpRRQ, FileX, octet), "c1")
    \/ Dial(1)
    \/ DialFail(1)
    \/ StepRead(1)

SpecDownload == InitDownload /\ [][NextDownload]_vars

\* the same, with a goroutine that is scheduled: handleRead never blocks for
\* good, since conn.Write does not wait and conn.Read returns by its deadline
SpecDownloadFair ==
    /\ InitDownload
    /\ [][NextDownload]_vars
    /\ WF_vars(Dial(1) \/ DialFail(1) \/ StepRead(1))

\* the server: the dispatcher and the sessions it launches, each with a client
\* that acknowledges, stays silent, sends an ErrorPacket or sends Data (whole
\* or cut below its header)
Init ==
    /\ ServerIdle
    /\ CodecIdle
    /\ Payload \in {NilPayload, [nil |-> FALSE, len |-> 1, seed |-> 7]}
    /\ Retries = 1
    /\ WriteAllowed \in BOOLEAN
    /\ connNil \in BOOLEAN
    /\ trace = TRUE
    /\ keep = FALSE

Next ==
    \/ ServeStart
    \/ \E d \in Requests : \E a \in Addrs : ServeRead(d, a)
    \/ ServeReadFail
    \/ \E s \in 1..MaxSessions :
          \/ Dial(s)
          \/ ReadNext(s)
          \/ ReadWrite(s)
          \/ ReadTimeout(s)
          \/ ReadRecv(s, AckMarshalBinary([Block |-> sessions[s].Block]))
          \/ WriteAckZero(s)
          \/ WriteCreate(s)
          \/ \E d \in {ClientData(1, 1), ClientError, <<0, 3>>} : WriteRecv(s, d, TRUE)
          \/ WriteAck(s)

Spec == Init /\ [][Next]_vars

\* one upload session, writes allowed or not, every client and every fault
InitUpload ==
    /\ ServerIdle
    /\ CodecIdle
    /\ Payload = [nil |-> FALSE, len |-> 1, seed |-> 7]
    /\ Retries = 1
    /\ WriteAllowed \in BOOLEAN
    /\ connNil = FALSE
    /\ trace = TRUE
    /\ keep = FALSE

NextUpload ==
    \/ ServeStart
    \/ sessions = <<>> /\ ServeRead(RawRequest(OpWRQ, FileX, octet), "c1")
    \/ Dial(1)
    \/ DialFail(1)
    \/ StepWrite(1)

SpecUpload == InitUpload /\ [][NextUpload]_vars

\* two downloads at once, for one client address or for two, each with a
\* client that acknowledges, repeats the Ack before, or stays silent; what each
\* session reads is recorded
InitTwo ==
    /\ ServerIdle
    /\ CodecIdle
    /\ Payload \in {[nil |-> FALSE, len |-> l, seed |-> 7] : l \in {1, BlockSize}}
    /\ Retries = 2
    /\ WriteAllowed = FALSE
    /\ connNil = FALSE
    /\ trace = TRUE
    /\ keep = TRUE

NextTwo ==
    \/ ServeStart
    \/ \E a \in Addrs :
          Len(sessions) < 2 /\ ServeRead(RawRequest(OpRRQ, FileX, octet), a)
    \/ \E s \in 1..2 :
          \/ Dial(s)
          \/ ReadNext(s)
          \/ ReadWrite(s)
          \/ ReadTimeout(s)
          \/ Live(s) /\ ReadRecv(s, AckMarshalBinary([Block |-> sessions[s].Block]))
          \/ Live(s) /\ ReadRecv(s, AckMarshalBinary(
                             [Block |-> (sessions[s].Block + U16 - 1) % U16]))

SpecTwo == InitTwo /\ [][NextTwo]_vars

\* the dispatcher alone, on requests and on datagrams that are none
NextDispatch ==
    \/ ServeStart
    \/ \E d \in Requests : \E a \in Addrs : ServeRead(d, a)
    \/ \E d \in Malformed : ServeRead(d, "c1")
    \/ ServeReadFail

SpecDispatch == Init /\ [][NextDispatch]_vars

\* a payload long enough for the block number to wrap: 65537 blocks
WrapLen == 33554433
\* the blocks already sent and acknowledged where SpecWrap starts
WrapStart == 65490

WrapPayload == [nil |-> FALSE, len |-> WrapLen, seed |-> 7]

\* one download of WrapPayload from the launch of its session, with a client
\* that acknowledges every block
InitLong ==
    /\ ServerIdle
    /\ CodecIdle
    /\ Payload = WrapPayload
    /\ Retries = 1
    /\ WriteAllowed = FALSE
    /\ connNil = FALSE
    /\ trace = FALSE
    /\ keep = FALSE

NextLong ==
    \/ ServeStart
    \/ sessions = <<>> /\ ServeRead(RawRequest(OpRRQ, FileX, octet), "c1")
    \/ Dial(1)
    \/ ReadNext(1)
    \/ ReadWrite(1)
    \/ ReadRecv(1, AckMarshalBinary([Block |-> sessions[1].Block]))

SpecLong == InitLong /\ [][NextLong]_vars

\* handleRead at the head of its NEXTPACKET loop once k blocks of the payload
\* have been sent and acknowledged
MidTransfer(k) ==
    [NewSession("read", "c1", [Filename |-> FileX, Mode |-> octet]) EXCEPT
        !.pc = "next", !.Block = k % U16,
        !.rd = [len |-> WrapLen, seed |-> 7, off |-> k * BlockSize],
        !.data = PutU16(OpData) \o PutU16(k) \o Chunk(7 + (k - 1) * BlockSize, BlockSize),
        !.i = 1, !.n = DatagramSize,
        !.buf = ReadInto(Zeros(DatagramSize), AckMarshalBinary([Block |-> k])),
        !.ackBlock = k % U16, !.nsent = k, !.acked = k, !.allTimedOut = FALSE]

\* SpecLong passes through the state SpecWrap starts in
LongReachesWrapStart ==
    (sessions # <<>> /\ sessions[1].acked = WrapStart /\ sessions[1].pc = "next")
        => sessions = <<MidTransfer(WrapStart)>>

\* the same download from the state it is in after WrapStart blocks, so that
\* the wrap of the block number is a few steps away
InitWrap ==
    /\ CodecIdle
    /\ Payload = WrapPayload
    /\ Retries = 1
    /\ WriteAllowed = FALSE
    /\ connNil = FALSE
    /\ trace = FALSE
    /\ keep = FALSE
    /\ servePc = "loop"
    /\ serveErr = "none"
    /\ lsent = <<>>
    /\ panicked = FALSE
    /\ nbad = 0
    /\ sessions = <<MidTransfer(WrapStart)>>

NextWrap ==
    \/ ReadNext(1)
    \/ ReadWrite(1)
    \/ ReadRecv(1, AckMarshalBinary([Block |-> sessions[1].Block]))

SpecWrap == InitWrap /\ [][NextWrap]_vars

(***************************************************************************)
(* Properties.                                                             *)
(***************************************************************************)
ReadSessions == {s \in 1..Len(sessions) : sessions[s].kind = "read"}

WriteSessions == {s \in 1..Len(sessions) : sessions[s].kind = "write"}

\* Data block k of payload P as the protocol lays it out: block number k
\* (mod 2^16) and bytes (k-1)*512+1 .. min(k*512, N) of the payload
ExpectedBlock(P, k) ==
    PutU16(OpData) \o PutU16(k % U16)
    \o [j \in 1..Min(BlockSize, P.len - (k - 1) * BlockSize) |->
           ByteAt(P.seed, (k - 1) * BlockSize + j)]

\* blocks 1 .. floor(N/512)+1
ExpectedBlocks(P) == [k \in 1..(P.len \div BlockSize + 1) |-> ExpectedBlock(P, k)]

RECURSIVE ConcatPayloads(_)
ConcatPayloads(ds) ==
    IF ds = <<>> THEN <<>> ELSE Drop(Head(ds), 4) \o ConcatPayloads(Tail(ds))

\* C1: a download whose every wait ended with the Ack of the block just sent
\* has sent blocks 1, 2, ... in order, each the next 512 payload bytes, and at
\* completion has sent all floor(N/512)+1 of them, the last one short (empty
\* when N is a multiple of 512); their payloads concatenated are the payload.
C1_BlocksInOrder ==
    \A s \in ReadSessions :
        LET sess == sessions[s]
            exp == ExpectedBlocks(Payload)
        IN  sess.allAcked =>
               /\ Len(sess.sent) <= Len(exp)
               /\ sess.sent = SubSeq(exp, 1, Len(sess.sent))
               /\ sess.pc = "complete" =>
                     /\ sess.sent = exp
                     /\ Len(sess.sent[Len(exp)]) = 4 + (Payload.len % BlockSize)
                     /\ ConcatPayloads(sess.sent) = SourceBytes(Payload)

\* a completed download of exactly one full block: a second, empty block ended it
C1_Witness ==
    \E s \in ReadSessions :
        /\ sessions[s].pc = "complete"
        /\ sessions[s].allAcked
        /\ Payload.len = BlockSize
        /\ Len(sessions[s].sent) = 2
        /\ Len(sessions[s].sent[2]) = 4

\* C2: a download whose every wait ended in a timeout has sent only copies of
\* block 1, at most Retries of them, and once it has given up exactly Retries.
C2_RetryBound ==
    \A s \in ReadSessions :
        LET sess == sessions[s]
        IN  sess.allTimedOut =>
               /\ \A j \in 1..Len(sess.sent) : sess.sent[j] = ExpectedBlock(Payload, 1)
               /\ Len(sess.sent) <= Retries
               /\ sess.pc # "complete"
               /\ sess.pc = "giveup" => Len(sess.sent) = Retries

\* a download that gave up after 3 timeouts with a budget of 3
C2_Witness ==
    \E s \in ReadSessions :
        /\ sessions[s].pc = "giveup"
        /\ sessions[s].allTimedOut
        /\ Retries = 3
        /\ Len(sessions[s].sent) = 3

\* C3: with writes not allowed, every upload session launched has had the
\* IllegalOperation ErrorPacket sent to its client on the listening socket and
\* has never sent Ack(0).
C3_NoAckZero ==
    WriteAllowed = FALSE =>
        \A s \in WriteSessions :
            /\ \E j \in 1..Len(lsent) :
                  /\ lsent[j].to = sessions[s].addr
                  /\ ErrUnmarshalBinary(lsent[j].data).Error = ErrIllegalOp
            /\ \A j \in 1..Len(sessions[s].sent) :
                  sessions[s].sent[j] # AckMarshalBinary([Block |-> 0])

\* C4: whatever datagrams the clients send to the sessions, the process lives:
\* the dispatcher can go on and so can every other session.
C4_FailuresStayLocal == panicked = FALSE

\* C5: a request laid out with mode m decodes iff m is octet in any case, for
\* ReadRequest and WriteRequest alike.
C5_ModeValidation ==
    cpc = "decoded" => (cout.err <=> cin.Mode \notin {octet, OCTET, Octet})

\* the field values the round trip is claimed for
ValidPacket(p) ==
    /\ p.kind \in {"RRQ", "WRQ"} => p.Mode \in {octet, OCTET, Octet}
    /\ p.kind = "DATA" => p.Payload.len <= BlockSize

\* what decode(encode(p)) is when the block number it gives a Data packet is b
RoundTrips(p, out, b) ==
    /\ out.err = FALSE
    /\ p.kind = "RRQ" => out.Filename = p.Filename /\ out.Mode = p.Mode
    /\ p.kind = "DATA" => out.Block = b /\ out.Payload = SourceBytes(p.Payload)
    /\ p.kind = "ACK" => out.Block = p.Block
    /\ p.kind = "ERR" => out.Error = p.Error /\ out.Message = p.Message

C7_BlockWraps ==
    \A s \in ReadSessions :
        LET sess == sessions[s]
        IN  /\ sess.pc \in {"write", "read"} =>
                  /\ sess.Block = (sess.acked + 1) % U16
                  /\ SubSeq(sess.data, 1, 4) = PutU16(OpData) \o PutU16(sess.Block)
            /\ (sess.pc \in {"write", "read"} /\ sess.acked = U16 - 1) => sess.Block = 0
            /\ sess.pc # "giveup"
            /\ sess.pc = "complete" =>
                  /\ sess.rd.off = Payload.len
                  /\ sess.acked = Payload.len \div BlockSize + 1

\* block 0 was sent and acknowledged, and block 1 is in flight again
C7_Witness ==
    \E s \in ReadSessions :
        /\ sessions[s].acked = U16
        /\ sessions[s].Block = 1
        /\ sessions[s].pc = "read"

\* a step of Serve launched one session of the kind for address a: the sessions
\* there were are untouched, the new one has not taken a step, Serve is back
\* at its read
Launched(kind, a) ==
    /\ Len(sessions') = Len(sessions) + 1
    /\ SubSeq(sessions', 1, Len(sessions)) = sessions
    /\ sessions'[Len(sessions')].kind = kind
    /\ sessions'[Len(sessions')].addr = a
    /\ sessions'[Len(sessions')].pc = "dial"
    /\ sessions'[Len(sessions')].nsent = 0
    /\ servePc' = "loop"

\* C8: a ReadRequest from address a launches exactly one download session
\* for a, a WriteRequest exactly one upload session for a; the step takes no
\* step of any session, whatever the sessions are doing, and leaves Serve at
\* its read.
C8_Dispatch ==
    [][\A a \in Addrs :
          /\ ServeRead(RawRequest(OpRRQ, FileX, octet), a) => Launched("read", a)
          /\ ServeRead(RawRequest(OpWRQ, FileX, octet), a) => Launched("write", a)]_vars

\* a download for one client and an upload for another both await a datagram
\* while Serve is in its loop
C8_Witness ==
    /\ servePc = "loop"
    /\ \E s \in ReadSessions : \E t \in WriteSessions :
          /\ sessions[s].pc = "read"
          /\ sessions[t].pc = "read"
          /\ sessions[s].addr # sessions[t].addr

\* C9: a datagram that is no request launches nothing, sends nothing and
\* leaves Serve in its loop as it was; Serve leaves its loop only when its read
\* fails, and returns that error.
C9_BadRequestsDropped ==
    [][/\ \A d \in Malformed :
             ServeRead(d, "c1") => UNCHANGED <<sessions, lsent, servePc, serveErr>>
       /\ (servePc = "loop" /\ servePc' # "loop") =>
             (ServeReadFail /\ servePc' = "returned" /\ serveErr' = "read")]_vars

\* a session was launched after MaxBad datagrams had been dropped, and Serve
\* then returned the error of its read
C9_Witness ==
    /\ nbad = MaxBad
    /\ servePc = "returned"
    /\ serveErr = "read"
    /\ lsent = <<>>
    /\ \E s \in 1..Len(sessions) : sessions[s].seen = MaxBad

\* C10: in a download awaiting the Ack of block k, a valid Ack of another block
\* leaves the session waiting: it is not sent back to conn.Write and its retry
\* counter is as it was.
C10_StrayAckIgnored ==
    [][sessions # <<>> =>
          LET pre == sessions[1]
              post == sessions'[1]
              stray == AckMarshalBinary([Block |-> (pre.Block + U16 - 1) % U16])
          IN  ReadRecv(1, stray) =>
                 /\ post.pc = "read"
                 /\ post.i = pre.i
                 /\ post.nsent = pre.nsent]_vars

\* C11: in a download awaiting the Ack of block k, a datagram that decodes as
\* neither an Ack nor an ErrorPacket (here a Data packet) leaves the session
\* waiting: it is not sent back to conn.Write and its retry counter is as it
\* was.
C11_UndecodableIgnored ==
    [][sessions # <<>> =>
          LET pre == sessions[1]
              post == sessions'[1]
          IN  ReadRecv(1, ClientData(pre.Block, 0)) =>
                 /\ post.pc = "read"
                 /\ post.i = pre.i
                 /\ post.nsent = pre.nsent]_vars

\* the block number a Data datagram carries
BlockOf(d) == ReadU16(SubSeq(d, 3, 4)).v

\* C12: a download leaves its wait for the head of its loop only when the
\* datagram it has read is an Ack of the block in flight; it sends a block
\* for the first time only from the head of its loop, where every block
\* before it has been acknowledged, and the new block is the next one; the
\* Ack of the block in flight takes the session to the head of the loop, and
\* from there, after a full block it marshals the next block, after a short
\* one it completes having sent nothing more; no state has a block sent
\* beyond the one after the last acknowledged.
C12_AdvanceOnAck ==
    [][sessions # <<>> =>
          LET pre == sessions[1]
              post == sessions'[1]
          IN  /\ \A d \in ToDownload(pre.Block) :
                    (ReadRecv(1, d) /\ post.pc = "next") =>
                        /\ AckUnmarshalBinary(d).err = FALSE
                        /\ AckUnmarshalBinary(d).Block = pre.Block
              /\ post.Block # pre.Block =>
                    /\ pre.pc = "next"
                    /\ pre.Block = pre.acked % U16
                    /\ post.Block = (pre.Block + 1) % U16
                    /\ pre.Block > 0 =>
                          /\ AckUnmarshalBinary(pre.buf).Block = pre.Block
                          /\ Len(pre.data) = DatagramSize
              /\ ReadRecv(1, AckMarshalBinary([Block |-> pre.Block])) =>
                    /\ post.pc = "next"
                    /\ post.acked = pre.acked + 1
                    /\ post.nsent = pre.nsent
              /\ (pre.pc = "next" /\ pre.acked > 0 /\ post # pre) =>
                    IF Len(pre.data) = DatagramSize
                    THEN /\ post.pc = "write"
                         /\ post.data = ExpectedBlock(Payload, pre.acked + 1)
                    ELSE /\ post.pc = "complete"
                         /\ post.sent = pre.sent
              /\ \A j \in 1..Len(post.sent) : BlockOf(post.sent[j]) <= post.acked + 1
              /\ pre.pc = "complete" => post = pre]_vars

\* C13: a valid ErrorPacket read by a download awaiting an Ack ends the
\* session at once, nothing being sent on the session's socket or on the
\* listening one; a download that has completed or given up takes no further
\* step, so sends nothing more.
C13_ErrorEnds ==
    [][sessions # <<>> =>
          LET pre == sessions[1]
              post == sessions'[1]
          IN  /\ ReadRecv(1, ClientError) =>
                    /\ post.pc = "giveup"
                    /\ post.sent = pre.sent
                    /\ post.nsent = pre.nsent
                    /\ lsent' = lsent
              /\ pre.pc \in {"complete", "giveup"} => post = pre]_vars

\* a download gave up on an ErrorPacket after its first block, with retries
\* to spare
C13_Witness ==
    \E s \in ReadSessions :
        /\ sessions[s].pc = "giveup"
        /\ ErrUnmarshalBinary(sessions[s].buf).err = FALSE
        /\ sessions[s].nsent = 1
        /\ sessions[s].i = Retries
        /\ Retries > 1

\* the datagrams of ds from the first to the k-th
FirstOf(ds, k) == SubSeq(ds, 1, Min(k, Len(ds)))

\* C14: the first datagram an upload sends is Ack(0); the j-th Ack after it
\* carries the block number of the j-th Data packet read, whatever it is; when
\* an Ack has been sent the payload it acknowledges is in the file; and while
\* the session waits for Data or has completed, every Data packet read has
\* its one Ack.
C14_AcksFollowData ==
    \A s \in WriteSessions :
        LET sess == sessions[s]
            acks == Len(sess.sent) - 1
        IN  sess.sent # <<>> =>
               /\ sess.sent[1] = AckMarshalBinary([Block |-> 0])
               /\ acks <= Len(sess.got)
               /\ \A j \in 1..acks :
                     sess.sent[j + 1] = AckMarshalBinary([Block |-> BlockOf(sess.got[j])])
               /\ FirstOf(sess.file, Len(ConcatPayloads(FirstOf(sess.got, acks))))
                     = ConcatPayloads(FirstOf(sess.got, acks))
               /\ sess.pc \in {"read", "complete"} => acks = Len(sess.got)
               /\ sess.pc = "ack" => acks + 1 = Len(sess.got)

\* an upload whose two Data packets both carried block number 9 has sent
\* Ack(0), Ack(9), Ack(9) and completed
C14_Witness ==
    \E s \in WriteSessions :
        /\ sessions[s].pc = "complete"
        /\ sessions[s].sent = <<AckMarshalBinary([Block |-> 0]),
                                AckMarshalBinary([Block |-> 9]),
                                AckMarshalBinary([Block |-> 9])>>

\* C15: as long as no file.Write has failed, the file of an upload holds the
\* payloads of the Data datagrams read so far, each the datagram without its
\* first 4 bytes, in the order read; every step that reads a valid Data
\* datagram appends its payload, a repeated block number included, and no
\* other step changes the file.
C15_FileIsConcat ==
    /\ [](\A s \in WriteSessions :
            ~sessions[s].diskFail =>
                sessions[s].file = ConcatPayloads(sessions[s].got))
    /\ [][sessions # <<>> =>
             LET pre == sessions[1]
                 post == sessions'[1]
                 valid == {d \in ToUpload(pre.nrecv) : ~DataUnmarshalBinary(d).err}
             IN  /\ \A d \in valid :
                       WriteRecv(1, d, TRUE) =>
                           /\ post.file = pre.file \o Drop(d, 4)
                           /\ Len(post.file) = Len(pre.file) + Len(d) - 4
                 /\ (\A d \in valid : ~WriteRecv(1, d, TRUE)) =>
                       post.file = pre.file]_vars

\* the same full Data datagram was read twice: the file holds its 512 bytes
\* twice
C15_Witness ==
    \E s \in WriteSessions :
        /\ sessions[s].got = <<ClientData(9, BlockSize), ClientData(9, BlockSize)>>
        /\ Len(sessions[s].file) = 2 * BlockSize
        /\ SubSeq(sessions[s].file, 1, BlockSize)
              = SubSeq(sessions[s].file, BlockSize + 1, 2 * BlockSize)

\* C16: an upload that waits for Data again has read only datagrams of 516
\* bytes; one that has completed has read full datagrams and then one shorter
\* datagram, has acknowledged it and has closed its file; the block numbers
\* play no part; a completed upload takes no further step.
C16_LengthDecides ==
    /\ [](\A s \in WriteSessions :
            LET sess == sessions[s]
                k == Len(sess.got)
            IN  /\ (sess.pc = "read" /\ sess.open) =>
                      \A j \in 1..k : Len(sess.got[j]) = DatagramSize
                /\ sess.pc = "complete" =>
                      /\ k >= 1
                      /\ \A j \in 1..(k - 1) : Len(sess.got[j]) = DatagramSize
                      /\ Len(sess.got[k]) < DatagramSize
                      /\ sess.sent[Len(sess.sent)]
                            = AckMarshalBinary([Block |-> BlockOf(sess.got[k])])
                      /\ ~sess.open)
    /\ [][(sessions # <<>> /\ sessions[1].pc = "complete") =>
             sessions'[1] = sessions[1]]_vars

\* an upload completed on an empty Data packet numbered 9 that followed a
\* full one numbered 1
C16_Witness ==
    \E s \in WriteSessions :
        /\ sessions[s].pc = "complete"
        /\ sessions[s].got = <<ClientData(1, BlockSize), ClientData(9, 0)>>

\* C17: an upload that reads an ErrorPacket, an Ack, or a Data-opcode datagram
\* of fewer than 4 bytes gives up: the file and what was sent are as they
\* were, the file is closed, the process runs on.
C17_BadDataGivesUp ==
    [][sessions # <<>> =>
          LET pre == sessions[1]
              post == sessions'[1]
          IN  \A d \in {ClientError, AckMarshalBinary([Block |-> 0]),
                         <<0, 3>>, <<0, 3, 0>>} :
                  WriteRecv(1, d, TRUE) =>
                      /\ post.pc = "giveup"
                      /\ post.file = pre.file
                      /\ post.sent = pre.sent
                      /\ ~post.open
                      /\ panicked' = FALSE]_vars

\* C18: with writes not allowed, an upload session never has a byte in its
\* file and never sends an Ack after its first datagram, whatever its client
\* sends it.
C18_RefusedStoresNothing ==
    WriteAllowed = FALSE =>
        \A s \in WriteSessions :
            /\ sessions[s].file = <<>>
            /\ Len(sessions[s].sent) <= 1

\* the datagrams of a download's history that carry block number b
Transmissions(sess, b) == {j \in 1..Len(sess.sent) : BlockOf(sess.sent[j]) = b}

\* C19: a download session, once launched, reaches "complete" or "giveup"
\* whatever its client sends or withholds; at every moment it has sent each
\* block at most Retries times, and at most Retries times the number of blocks
\* of the payload in all.
C19_Terminates ==
    /\ [](\A s \in ReadSessions :
            /\ \A b \in 1..(Payload.len \div BlockSize + 1) :
                  Cardinality(Transmissions(sessions[s], b)) <= Retries
            /\ Len(sessions[s].sent) <= Retries * (Payload.len \div BlockSize + 1))
    /\ (sessions # <<>>) ~>
          (sessions # <<>> /\ sessions[1].pc \in {"complete", "giveup"})

\* a download of two blocks ended with both of them sent three times, the
\* whole budget of each
C19_Witness ==
    \E s \in ReadSessions :
        /\ sessions[s].pc \in {"complete", "giveup"}
        /\ Retries = 3
        /\ Payload.len = BlockSize
        /\ Cardinality(Transmissions(sessions[s], 1)) = 3
        /\ Cardinality(Transmissions(sessions[s], 2)) = 3

IsPrefix(a, b) == Len(a) <= Len(b) /\ a = SubSeq(b, 1, Len(a))

\* C20: among concurrent downloads, a step of one session leaves the record
\* of every other as it was; every datagram a session has sent is the block of
\* the payload its number names, the first being block 1; and what a session
\* has sent is decided by what it has read: of two sessions, the one that has
\* read a prefix of what the other has read has sent a prefix of what the
\* other has sent (or, having read the same, one step more or less).
C20_Isolated ==
    /\ [](\A s \in ReadSessions :
            LET sess == sessions[s]
            IN  /\ \A j \in 1..Len(sess.sent) :
                      sess.sent[j] = ExpectedBlock(Payload, BlockOf(sess.sent[j]))
                /\ sess.sent # <<>> => BlockOf(sess.sent[1]) = 1
                /\ \A u \in ReadSessions :
                      IsPrefix(sess.rcvd, sessions[u].rcvd) =>
                          \/ IsPrefix(sess.sent, sessions[u].sent)
                          \/ /\ sess.rcvd = sessions[u].rcvd
                             /\ IsPrefix(sessions[u].sent, sess.sent))
    /\ [][\A s \in 1..Len(sessions) : \A u \in 1..Len(sessions) :
             (s # u /\ sessions'[s] # sessions[s]) =>
                 sessions'[u] = sessions[u]]_vars

\* two downloads for the same client address: one has completed on an Ack read
\* after a timeout, the other, which has read only a timeout, is still sending
C20_Witness ==
    /\ Len(sessions) = 2
    /\ sessions[1].addr = sessions[2].addr
    /\ \E s \in {1, 2} : \E u \in {1, 2} :
          /\ sessions[s].pc = "complete"
          /\ Len(sessions[s].rcvd) >= 2
          /\ sessions[s].rcvd[1] = <<-1>>
          /\ sessions[u].rcvd = <<(<<-1>>)>>
          /\ sessions[u].pc = "read"
          /\ sessions[u].nsent = 2

====
